---- MODULE Spec2Model ----
(***************************************************************************)
(* A model of the quantitative metrics engine of the strategy dashboard:   *)
(* metrics.py (calculate_single_sheet_metrics, apply_slippage,             *)
(* get_optimized_leaderboard, ...) and charts.py (plot_monte_carlo).       *)
(*                                                                         *)
(* Numbers.  The code computes in IEEE double precision through numpy and  *)
(* pandas.  The model computes exactly: a value is a record [k, n, d]      *)
(*   k = "rat"  : the rational n/d, d > 0, in lowest terms                 *)
(*   k = "sqrt" : sign(n) * sqrt(|n|/d), d > 0, n # 0, in lowest terms     *)
(*   k = "inf"  : +infinity (n = 1) or -infinity (n = -1)                  *)
(*   k = "nan"  : NaN                                                      *)
(* so NaN and the infinities propagate as numpy propagates them, and the   *)
(* rounding of the finite values is left out.                              *)
(*                                                                         *)
(* Dates.  A Date is a whole day, counted from 2024-12-29 (Date 1 is       *)
(* 2024-12-30, Date 3 is 2025-01-01); the time of day is left out.         *)
(***************************************************************************)
EXTENDS Integers, Sequences, FiniteSets, TLC

(***************************************************************************)
(* Exact arithmetic with NaN and the infinities                            *)
(***************************************************************************)
Abs(x) == IF x < 0 THEN -x ELSE x

Sign(x) == IF x < 0 THEN -1 ELSE IF x > 0 THEN 1 ELSE 0

RECURSIVE Gcd(_, _)
Gcd(a, b) == IF b = 0 THEN a ELSE Gcd(b, a % b)

NaN == [k |-> "nan", n |-> 0, d |-> 0]

Inf(s) == [k |-> "inf", n |-> s, d |-> 0]

\* the rational n/d (d # 0) in lowest terms with a positive denominator
Rat(n, d) ==
    LET g == Gcd(Abs(n), Abs(d))
        s == IF d < 0 THEN -1 ELSE 1
    IN  [k |-> "rat", n |-> s * (n \div g), d |-> s * (d \div g)]

Num(i) == [k |-> "rat", n |-> i, d |-> 1]

\* sign(s) * sqrt(n/d) for n >= 0, d > 0
Surd(s, n, d) ==
    IF n = 0 \/ s = 0 THEN Num(0)
    ELSE LET g == Gcd(n, d) IN [k |-> "sqrt", n |-> Sign(s) * (n \div g), d |-> d \div g]

IsNaN(a) == a.k = "nan"

XNeg(a) == [a EXCEPT !.n = -a.n]

\* abs(): abs(nan) is nan
XAbs(a) == [a EXCEPT !.n = Abs(a.n)]

\* Python's  a != 0 : True for NaN and for the infinities
NeZero(a) == a.k # "rat" \/ a.n # 0

XAdd(a, b) ==
    IF IsNaN(a) \/ IsNaN(b) THEN NaN
    ELSE IF a.k = "inf" THEN (IF b.k = "inf" /\ b.n # a.n THEN NaN ELSE a)
    ELSE IF b.k = "inf" THEN b
    ELSE LET g == Gcd(a.d, b.d)
         IN  Rat(a.n * (b.d \div g) + b.n * (a.d \div g), (a.d \div g) * b.d)

XSub(a, b) == XAdd(a, XNeg(b))

\* (n1/d1) * (n2/d2) for n1, n2 >= 0 and d1, d2 > 0, as <<n, d>> in lowest terms
\* when both fractions are
MulFrac(n1, d1, n2, d2) ==
    LET g1 == Gcd(n1, d2)
        g2 == Gcd(n2, d1)
    IN  IF n1 = 0 \/ n2 = 0 THEN <<0, 1>>
        ELSE <<(n1 \div g1) * (n2 \div g2), (d1 \div g2) * (d2 \div g1)>>

\* the square of the rational n/d (in lowest terms) as <<n, d>>
SqFrac(n, d) == <<n * n, d * d>>

\* a * b, where a finite operand is a rational or a square root
XMul(a, b) ==
    IF IsNaN(a) \/ IsNaN(b) THEN NaN
    ELSE IF a.k = "inf" \/ b.k = "inf"
         THEN (IF a.n = 0 \/ b.n = 0 THEN NaN ELSE Inf(Sign(a.n) * Sign(b.n)))
    ELSE LET s == Sign(a.n) * Sign(b.n)
             fa == IF a.k = "rat" /\ b.k = "sqrt" THEN SqFrac(Abs(a.n), a.d)
                   ELSE <<Abs(a.n), a.d>>
             fb == IF b.k = "rat" /\ a.k = "sqrt" THEN SqFrac(Abs(b.n), b.d)
                   ELSE <<Abs(b.n), b.d>>
             f == MulFrac(fa[1], fa[2], fb[1], fb[2])
         IN  IF a.k = "rat" /\ b.k = "rat" THEN Rat(s * f[1], f[2])
             ELSE Surd(s, f[1], f[2])

\* 1 / b for a finite non-zero b
XInv(b) ==
    IF b.k = "rat" THEN Rat(b.d, b.n)
    ELSE Surd(Sign(b.n), b.d, Abs(b.n))

\* IEEE division: x/0 is +-inf, 0/0 is nan, x/inf is 0
XDiv(a, b) ==
    IF IsNaN(a) \/ IsNaN(b) THEN NaN
    ELSE IF b.k = "inf" THEN (IF a.k = "inf" THEN NaN ELSE Num(0))
    ELSE IF a.k = "inf" THEN Inf(a.n * (IF b.n < 0 THEN -1 ELSE 1))
    ELSE IF b.n = 0 THEN (IF a.n = 0 THEN NaN ELSE Inf(Sign(a.n)))
    ELSE XMul(a, XInv(b))

\* np.sqrt of a rational, an infinity or NaN
XSqrt(a) ==
    IF IsNaN(a) THEN NaN
    ELSE IF a.k = "inf" THEN (IF a.n > 0 THEN a ELSE NaN)
    ELSE IF a.n < 0 THEN NaN
    ELSE Surd(1, a.n, a.d)

\* a comparison that never holds
NeverLess(a, b) == FALSE

\* a <= b: a comparison that holds for equal values as well
XLessOrEqual(a, b) ==
    IF IsNaN(a) \/ IsNaN(b) THEN FALSE
    ELSE IF a.k = "inf" THEN a.n < 0 \/ b = a
    ELSE IF b.k = "inf" THEN b.n > 0
    ELSE a.n * b.d <= b.n * a.d

\* a < b on two values of the same finite kind or infinite; False with a NaN
XLess(a, b) ==
    IF IsNaN(a) \/ IsNaN(b) THEN FALSE
    ELSE IF a.k = "inf" THEN a.n < 0 /\ ~(b.k = "inf" /\ b.n < 0)
    ELSE IF b.k = "inf" THEN b.n > 0
    ELSE a.n * b.d < b.n * a.d

XLeq(a, b) == ~IsNaN(a) /\ ~IsNaN(b) /\ ~XLess(b, a)

(***************************************************************************)
(* Series                                                                  *)
(***************************************************************************)
RECURSIVE SumInts(_)
SumInts(s) == IF Len(s) = 0 THEN 0 ELSE s[1] + SumInts(Tail(s))

RECURSIVE SumVals(_)
SumVals(s) == IF Len(s) = 0 THEN Num(0) ELSE XAdd(s[1], SumVals(Tail(s)))

\* Series.cumsum()
cumsum(s) == [i \in 1..Len(s) |-> SumInts(SubSeq(s, 1, i))]

MaxOfSet(S) == CHOOSE x \in S : \A y \in S : y <= x

MinOfSet(S) == CHOOSE x \in S : \A y \in S : x <= y

\* Series.cummax()
cummax(s) == [i \in 1..Len(s) |-> MaxOfSet({s[j] : j \in 1..i})]

\* Series.mean(): NaN for an empty series
mean(s) == XDiv(SumVals(s), Num(Len(s)))

\* Series.min(): NaN entries are skipped, NaN when nothing is left
RECURSIVE MinVals(_)
MinVals(s) ==
    IF Len(s) = 0 THEN NaN
    ELSE LET r == MinVals(Tail(s))
         IN  IF IsNaN(s[1]) THEN r
             ELSE IF IsNaN(r) THEN s[1]
             ELSE IF XLess(r, s[1]) THEN r ELSE s[1]

\* Series.std(): sample standard deviation (ddof = 1), NaN for one observation
std(s) ==
    LET m == mean(s)
        sq == [i \in 1..Len(s) |-> XMul(XSub(s[i], m), XSub(s[i], m))]
    IN  XSqrt(XDiv(SumVals(sq), Num(Len(s) - 1)))

\* ascending sort of a series of rationals
RECURSIVE SortVals(_)
SortVals(s) ==
    IF Len(s) <= 1 THEN s
    ELSE LET i == CHOOSE i \in 1..Len(s) : \A j \in 1..Len(s) : XLeq(s[i], s[j])
         IN  <<s[i]>> \o SortVals(SubSeq(s, 1, i - 1) \o SubSeq(s, i + 1, Len(s)))

\* Series.quantile(qn/qd) of a non-empty series, linear interpolation
quantile(s, qn, qd) ==
    LET v == SortVals(s)
        h == (Len(s) - 1) * qn
        lo == h \div qd
        fr == Rat(h % qd, qd)
    IN  IF lo + 1 >= Len(s) THEN v[lo + 1]
        ELSE XAdd(v[lo + 1], XMul(fr, XSub(v[lo + 2], v[lo + 1])))

(***************************************************************************)
(* Datasets: a dataset (DataFrame) is a sequence of rows in row order, a   *)
(* row the record [Date, NetPnL, RunUp] of the columns 'Date', 'Net P&L'   *)
(* and 'Run-up' that io_layer._load_excel delivers.                        *)
(***************************************************************************)
Row(date, pnl, runup) == [Date |-> date, NetPnL |-> pnl, RunUp |-> runup]

\* df['Net P&L']
NetPnL(df) == [i \in 1..Len(df) |-> df[i].NetPnL]

AsVals(s) == [i \in 1..Len(s) |-> Num(s[i])]

\* df.set_index('Date')['Net P&L'].resample('D').sum().fillna(0): one entry
\* per calendar day from the first to the last date, 0 on a day without trade
resample_D_sum(df) ==
    IF Len(df) = 0 THEN <<>>
    ELSE LET dates == {df[i].Date : i \in 1..Len(df)}
             first == MinOfSet(dates)
             last == MaxOfSet(dates)
         IN  [j \in 1..(last - first + 1) |->
                 SumInts(NetPnL(SelectSeq(df, LAMBDA r : r.Date = first + j - 1)))]

None == [k |-> "None", v |-> <<>>]

MetricNames ==
    {"Net Profit", "ROI %", "Profit/Trade", "Sharpe", "Sortino", "Calmar", "Omega",
     "Tail Ratio", "Profit Factor", "Risk:Reward", "Win Rate %", "Max DD %", "Trades",
     "Trades/Year"}

\* dd_pct of metrics.py:103-106: the drawdown percentage after every trade
drawdown_pct(df, investment) ==
    LET cum_pnl == cumsum(NetPnL(df))
        equity == [i \in 1..Len(df) |-> investment + cum_pnl[i]]
        peak == cummax(equity)
        dd == [i \in 1..Len(df) |-> equity[i] - peak[i]]
    IN  [i \in 1..Len(df) |-> XMul(XDiv(Num(dd[i]), Num(peak[i])), Num(100))]

\* daily_rets of metrics.py:119-120
daily_returns(df, investment) ==
    LET daily_df == resample_D_sum(df)
    IN  [j \in 1..Len(daily_df) |-> XDiv(Num(daily_df[j]), Num(investment))]

\* daily_rf of metrics.py:121
daily_rf_of(rf_rate) == Rat(rf_rate, 100 * 252)

\* downside_dev of metrics.py:127-128
downside_deviation(daily_rets, daily_rf) ==
    LET below == SelectSeq(daily_rets, LAMBDA r : XLess(r, daily_rf))
        neg_excess_rets == [i \in 1..Len(below) |-> XSub(below[i], daily_rf)]
        squares == [i \in 1..Len(below) |-> XMul(neg_excess_rets[i], neg_excess_rets[i])]
    IN  XSqrt(mean(squares))

\* the records at or above zero
flat_or_winning_pnl(pnl) == SelectSeq(pnl, LAMBDA p : p >= 0)

\* df[df['Net P&L'] > 0]['Net P&L']
winning_pnl(pnl) == SelectSeq(pnl, LAMBDA p : p > 0)

calculate_single_sheet_metrics(df, investment, rf_rate) ==
    IF Len(df) = 0 THEN None
    ELSE
    LET pnl == NetPnL(df)
        n == Len(df)
        wins == winning_pnl(pnl)
        losers == SelectSeq(pnl, LAMBDA p : p < 0)
        total_profit == Num(SumInts(pnl))
        roi == XMul(XDiv(total_profit, Num(investment)), Num(100))
        win_rate == IF n > 0 THEN XMul(XDiv(Num(Len(wins)), Num(n)), Num(100)) ELSE Num(0)
        max_dd == MinVals(drawdown_pct(df, investment))
        avg_pnl_per_trade == IF n > 0 THEN XDiv(total_profit, Num(n)) ELSE Num(0)
        dates == {df[i].Date : i \in 1..n}
        days_active == MaxOfSet(dates) - MinOfSet(dates)
        years_active == Rat(days_active * 100, 36525)
        trades_per_year == IF years_active.n > 0 THEN XDiv(Num(n), years_active) ELSE Num(n)
        daily_rets == daily_returns(df, investment)
        daily_rf == daily_rf_of(rf_rate)
        daily_excess_rets == [j \in 1..Len(daily_rets) |-> XSub(daily_rets[j], daily_rf)]
        daily_std == std(daily_rets)
        sqrt252 == XSqrt(Num(252))
        sharpe == IF NeZero(daily_std)
                  THEN XMul(XDiv(mean(daily_excess_rets), daily_std), sqrt252)
                  ELSE Num(0)
        downside_dev == downside_deviation(daily_rets, daily_rf)
        sortino == IF NeZero(downside_dev)
                   THEN XMul(XDiv(mean(daily_excess_rets), downside_dev), sqrt252)
                   ELSE Num(0)
        gains == SumVals(SelectSeq(daily_rets, LAMBDA r : r.n > 0))
        losses == XAbs(SumVals(SelectSeq(daily_rets, LAMBDA r : r.n < 0)))
        omega == IF NeZero(losses) THEN XDiv(gains, losses) ELSE Num(0)
        p95 == quantile(daily_rets, 95, 100)
        p05 == XAbs(quantile(daily_rets, 5, 100))
        tail_ratio == IF NeZero(p05) THEN XDiv(p95, p05) ELSE Num(0)
        gross_profit == Num(SumInts(wins))
        gross_loss == XAbs(Num(SumInts(losers)))
        profit_factor == IF NeZero(gross_loss) THEN XDiv(gross_profit, gross_loss) ELSE Num(0)
        avg_win == mean(AsVals(wins))
        avg_loss == XAbs(mean(AsVals(losers)))
        rr_ratio == IF NeZero(avg_loss) THEN XDiv(avg_win, avg_loss) ELSE Num(0)
        annual_return_pct ==
            IF years_active.n > 0
            THEN XMul(XDiv(XDiv(total_profit, Num(investment)), years_active), Num(100))
            ELSE Num(0)
        calmar == IF NeZero(max_dd) THEN XAbs(XDiv(annual_return_pct, max_dd)) ELSE Num(0)
    IN  [k |-> "dict",
         v |-> [f \in MetricNames |->
                 CASE f = "Net Profit" -> total_profit
                   [] f = "ROI %" -> roi
                   [] f = "Profit/Trade" -> avg_pnl_per_trade
                   [] f = "Sharpe" -> sharpe
                   [] f = "Sortino" -> sortino
                   [] f = "Calmar" -> calmar
                   [] f = "Omega" -> omega
                   [] f = "Tail Ratio" -> tail_ratio
                   [] f = "Profit Factor" -> profit_factor
                   [] f = "Risk:Reward" -> rr_ratio
                   [] f = "Win Rate %" -> win_rate
                   [] f = "Max DD %" -> max_dd
                   [] f = "Trades" -> Num(n)
                   [] f = "Trades/Year" -> trades_per_year]]

(***************************************************************************)
(* apply_slippage works on DataFrame objects: a store maps the object ids  *)
(* 1..Len(store) to their rows, and the function returns an object id.     *)
(***************************************************************************)
\* an adjustment that never subtracts the cost
apply_slippage_not_subtracted(h, df, slippage_per_trade) == [store |-> h, ref |-> df]

apply_slippage(h, df, slippage_per_trade) ==
    IF Len(h[df]) = 0 \/ slippage_per_trade = 0
    THEN [store |-> h, ref |-> df]
    ELSE LET df_adj == [i \in 1..Len(h[df]) |->
                           [h[df][i] EXCEPT !.NetPnL = @ - slippage_per_trade]]
         IN  [store |-> Append(h, df_adj), ref |-> Len(h) + 1]

(***************************************************************************)
(* get_optimized_leaderboard.  A file name is the sequence of its pieces,  *)
(* the piece ".xlsx" standing for every occurrence of that text, so that   *)
(* name.replace(".xlsx", "") drops exactly the ".xlsx" pieces.             *)
(***************************************************************************)
str_replace_xlsx(name) == SelectSeq(name, LAMBDA piece : piece # ".xlsx")

Min2(a, b) == IF a <= b THEN a ELSE b

\* a window that leaves its end date out
date_mask_end_excluded(df_raw, start_date, end_date) ==
    SelectSeq(df_raw, LAMBDA r : r.Date >= start_date /\ r.Date < end_date)

\* df_raw.loc[d_mask]: the rows inside the window, both ends included
date_mask(df_raw, start_date, end_date) ==
    SelectSeq(df_raw, LAMBDA r : r.Date >= start_date /\ r.Date <= end_date)

RowNames == MetricNames \cup {"Strategy"}

\* s[1] \o s[2] \o ... for a sequence s of sequences
RECURSIVE Concat(_)
Concat(s) == IF s = <<>> THEN <<>> ELSE Head(s) \o Concat(Tail(s))

\* metrics.py:337-339: the rows a pass appends to data, none when the metrics
\* are None
leaderboard_row(name, metrics) ==
    IF metrics.k = "dict"
    THEN <<[f \in RowNames |->
               IF f = "Strategy" THEN str_replace_xlsx(name) ELSE metrics.v[f]]>>
    ELSE <<>>

\* metrics.py:334-336: the adjusted frame and the rows computed from it
leaderboard_adjusted(h, made_before, name, adj, a) ==
    [made |-> SubSeq(adj.store, made_before + 1, Len(adj.store)),
     data |-> leaderboard_row(name,
                  calculate_single_sheet_metrics(adj.store[adj.ref], a.investment, a.rf_rate))]

\* one pass of the loop of metrics.py:331-339 for a (df_raw, name) pair, with the
\* store h at hand: the DataFrame objects the pass makes (the copy of the
\* window's rows and, when apply_slippage adjusts, the adjusted frame) and the
\* rows it appends to data
leaderboard_copied(h, name, copied, a) ==
    leaderboard_adjusted(h, Len(h), name, apply_slippage(copied, Len(copied), a.slippage), a)

leaderboard_step(h, name, df_raw, a) ==
    leaderboard_copied(h, name, Append(h, date_mask(h[df_raw], a.start_date, a.end_date)), a)

\* the store and the list data after all the passes
leaderboard_collect(h, passes) ==
    [store |-> h \o Concat([i \in 1..Len(passes) |-> passes[i].made]),
     data |-> Concat([i \in 1..Len(passes) |-> passes[i].data])]

\* for df_raw, name in zip(all_dfs, file_names): no pass changes an object of
\* the store, so each pass reads the inputs as they were at the call
leaderboard_loop(h, names, dfs, a) ==
    leaderboard_collect(h, [i \in 1..Min2(Len(names), Len(dfs)) |->
                               leaderboard_step(h, names[i], dfs[i], a)])

\* a: [start_date, end_date, investment, rf_rate, slippage]
get_optimized_leaderboard(h, dfs, names, a) == leaderboard_loop(h, names, dfs, a)

(***************************************************************************)
(* The calendar of the dates the model uses: Date 1 = 2024-12-30, Date 3 = *)
(* 2025-01-01, Date 368 = 2026-01-01, up to the end of 2027 (io_layer:     *)
(* .dt.year and .dt.month_name()).                                         *)
(***************************************************************************)
months ==
    <<"January", "February", "March", "April", "May", "June", "July", "August",
      "September", "October", "November", "December">>

\* the days of the months of 2025, 2026 and 2027, none a leap year
MonthLengths == <<31, 28, 31, 30, 31, 30, 31, 31, 30, 31, 30, 31>>

YearOf(date) == IF date <= 2 THEN 2024 ELSE 2025 + (date - 3) \div 365

DayOfYear(date) == IF date <= 2 THEN 364 + date ELSE ((date - 3) % 365) + 1

MonthNumber(date) ==
    IF date <= 2 THEN 12
    ELSE CHOOSE m \in 1..12 :
            /\ SumInts(SubSeq(MonthLengths, 1, m - 1)) < DayOfYear(date)
            /\ DayOfYear(date) <= SumInts(SubSeq(MonthLengths, 1, m))

MonthOf(date) == months[MonthNumber(date)]

\* the descending sequence of a finite set of integers
RECURSIVE DescendingSeq(_)
DescendingSeq(S) ==
    IF S = {} THEN <<>>
    ELSE LET m == MaxOfSet(S) IN <<m>> \o DescendingSeq(S \ {m})

\* the ascending sequence of a finite set of integers
RECURSIVE SortedSeq(_)
SortedSeq(S) ==
    IF S = {} THEN <<>>
    ELSE LET m == MinOfSet(S) IN <<m>> \o SortedSeq(S \ {m})

(***************************************************************************)
(* calculate_drawdown_duration, on the 'Date' column and the 'Drawdown %'  *)
(* column (a series of values) of the frame                                *)
(***************************************************************************)
calculate_drawdown_duration(dates, dd) ==
    LET n == Len(dates)
        is_underwater == [i \in 1..n |-> XLess(dd[i], Num(0))]
        \* the maximal runs of consecutive underwater rows
        groups == {g \in (1..n) \X (1..n) :
                      /\ g[1] <= g[2]
                      /\ \A i \in g[1]..g[2] : is_underwater[i]
                      /\ g[1] = 1 \/ ~is_underwater[g[1] - 1]
                      /\ g[2] = n \/ ~is_underwater[g[2] + 1]}
        duration(g) == MaxOfSet({dates[i] : i \in g[1]..g[2]})
                          - MinOfSet({dates[i] : i \in g[1]..g[2]})
    IN  IF n = 0 THEN 0
        ELSE IF \A i \in 1..n : ~is_underwater[i] THEN 0
        ELSE MaxOfSet({0} \cup {duration(g) : g \in groups})

(***************************************************************************)
(* calculate_rolling_sortino: one value per day of the daily series        *)
(***************************************************************************)
\* Series.rolling(window).mean(): NaN until the window is full
\* a rolling mean that starts with the days at hand (min_periods = 1)
rolling_mean_from_first_day(s, window) ==
    [i \in 1..Len(s) |->
        IF i < window THEN mean(SubSeq(s, 1, i)) ELSE mean(SubSeq(s, i - window + 1, i))]

rolling_mean(s, window) ==
    [i \in 1..Len(s) |->
        IF i < window THEN NaN ELSE mean(SubSeq(s, i - window + 1, i))]

calculate_rolling_sortino(df, window_days, rf_rate) ==
    LET daily_rets == AsVals(resample_D_sum(df))
        n == Len(daily_rets)
        roll_mean == rolling_mean(daily_rets, window_days)
        neg_rets == [i \in 1..n |-> IF daily_rets[i].n > 0 THEN Num(0) ELSE daily_rets[i]]
        neg_sq == [i \in 1..n |-> XMul(neg_rets[i], neg_rets[i])]
        roll_sq == rolling_mean(neg_sq, window_days)
        rolling_downside == [i \in 1..n |-> XSqrt(roll_sq[i])]
        \* .replace(0, np.nan)
        replaced == [i \in 1..n |->
                        IF rolling_downside[i] = Num(0) THEN NaN ELSE rolling_downside[i]]
    IN  [i \in 1..n |-> XMul(XDiv(roll_mean[i], replaced[i]), XSqrt(Num(252)))]

(***************************************************************************)
(* calculate_compounding_simulation                                        *)
(***************************************************************************)
\* f"{x:.2f}x" of a rational x: the hundredths it prints, ties to even
format_2f_x(x) ==
    LET q == x.n * 100
        fl == q \div x.d
        rem == q % x.d
        up == 2 * rem > x.d \/ (2 * rem = x.d /\ fl % 2 = 1)
    IN  [hundredths |-> IF up THEN fl + 1 ELSE fl, suffix |-> "x"]

YearResultNames ==
    {"Year", "Start Balance", "Scaling Factor", "Raw Profit", "Tax/Fee", "Net Profit",
     "End Balance", "Yearly Growth %", "Linear Equity (Ref)"}

\* a yearly sum that takes every record whatever its year
yearly_group_all_years(df, year) == SumInts(NetPnL(df))

\* df.groupby('Year')['Net P&L'].sum()[year]
yearly_group(df, year) ==
    SumInts(NetPnL(SelectSeq(df, LAMBDA r : YearOf(r.Date) = year)))

\* the body of the loop of metrics.py:187-211 for the i-th year (i from 0): the
\* row it appends and the two balances it carries on
compounding_year(df, initial_capital, mode, tax_rate, i, year, current_equity, linear_equity) ==
    LET raw_profit == Num(yearly_group(df, year))
        proportional == XDiv(current_equity, Num(initial_capital))
        scaling_factor ==
            IF mode = "linear" THEN Num(1 + i)
            ELSE IF XLess(proportional, Rat(1, 10)) THEN Rat(1, 10) ELSE proportional
        gross_compounded_profit == XMul(raw_profit, scaling_factor)
        tax_deduction ==
            IF gross_compounded_profit.n > 0
            THEN XMul(gross_compounded_profit, Rat(tax_rate, 100))
            ELSE Num(0)
        net_compounded_profit == XSub(gross_compounded_profit, tax_deduction)
        start_bal == current_equity
        end_bal == XAdd(start_bal, net_compounded_profit)
        yearly_growth_pct ==
            IF start_bal.n > 0
            THEN XMul(XDiv(net_compounded_profit, start_bal), Num(100))
            ELSE Num(0)
        linear == XAdd(linear_equity, raw_profit)
    IN  [row |-> [f \in YearResultNames |->
                     CASE f = "Year" -> year
                       [] f = "Start Balance" -> start_bal
                       [] f = "Scaling Factor" -> format_2f_x(scaling_factor)
                       [] f = "Raw Profit" -> raw_profit
                       [] f = "Tax/Fee" -> tax_deduction
                       [] f = "Net Profit" -> net_compounded_profit
                       [] f = "End Balance" -> end_bal
                       [] f = "Yearly Growth %" -> yearly_growth_pct
                       [] f = "Linear Equity (Ref)" -> linear],
         current_equity |-> end_bal,
         linear_equity |-> linear]

RECURSIVE compounding_loop(_, _, _, _, _, _, _, _, _)
compounding_loop(df, initial_capital, mode, tax_rate, years_list, i, current_equity, linear_equity, simulation_data) ==
    IF i >= Len(years_list) THEN simulation_data
    ELSE LET y == compounding_year(df, initial_capital, mode, tax_rate, i,
                                   years_list[i + 1], current_equity, linear_equity)
         IN  compounding_loop(df, initial_capital, mode, tax_rate, years_list, i + 1,
                              y.current_equity, y.linear_equity,
                              Append(simulation_data, y.row))

calculate_compounding_simulation(df, initial_capital, mode, tax_rate) ==
    LET years_list == SortedSeq({YearOf(df[j].Date) : j \in 1..Len(df)})
    IN  compounding_loop(df, initial_capital, mode, tax_rate, years_list, 0,
                         Num(initial_capital), Num(initial_capital), <<>>)

(***************************************************************************)
(* calculate_trailing_sl_analysis and calculate_loss_breakdown             *)
(***************************************************************************)
\* float('inf') as the upper end of the last bucket
Unbounded == -1

buckets ==
    <<[b_min |-> 3000, b_max |-> 5000, label |-> "3k - 5k"],
      [b_min |-> 5000, b_max |-> 8000, label |-> "5k - 8k"],
      [b_min |-> 8000, b_max |-> 12000, label |-> "8k - 12k"],
      [b_min |-> 12000, b_max |-> 20000, label |-> "12k - 20k"],
      [b_min |-> 20000, b_max |-> Unbounded, label |-> "> 20k"]>>

\* a selection that takes the upper end of the range in as well
run_up_subset_closed(losing_trades, b) ==
    SelectSeq(losing_trades, LAMBDA r : /\ r.RunUp >= b.b_min
                                        /\ b.b_max = Unbounded \/ r.RunUp <= b.b_max)

\* losing_trades[(losing_trades['Run-up'] >= b_min) & (losing_trades['Run-up'] < b_max)]
run_up_subset(losing_trades, b) ==
    SelectSeq(losing_trades, LAMBDA r : /\ r.RunUp >= b.b_min
                                        /\ b.b_max = Unbounded \/ r.RunUp < b.b_max)

\* (Summary DataFrame or None, Detailed Losing Trades DataFrame)
calculate_trailing_sl_analysis(df) ==
    LET losing_trades == SelectSeq(df, LAMBDA r : r.NetPnL < 0)
        run_up_sum == SumInts([i \in 1..Len(df) |-> df[i].RunUp])
        result(b) ==
            LET subset == run_up_subset(losing_trades, b)
                count == Len(subset)
            IN  [range |-> b.label,
                 count |-> count,
                 avg_loss |-> IF count > 0 THEN mean(AsVals(NetPnL(subset))) ELSE Num(0)]
    IN  IF Len(losing_trades) = 0 \/ run_up_sum = 0
        THEN [summary |-> None, losers |-> <<>>]
        ELSE [summary |-> [k |-> "table", v |-> [i \in 1..Len(buckets) |-> result(buckets[i])]],
              losers |-> losing_trades]

\* a selection that takes its upper end in as well
loss_between_closed(losing_trades, below, at_least) ==
    SelectSeq(losing_trades, LAMBDA r : r.NetPnL <= below /\ r.NetPnL >= at_least)

\* losing_trades[(losing_trades['Net P&L'] < below) & (losing_trades['Net P&L'] >= at_least)]
loss_between(losing_trades, below, at_least) ==
    SelectSeq(losing_trades, LAMBDA r : r.NetPnL < below /\ r.NetPnL >= at_least)

calculate_loss_breakdown(df) ==
    LET losing_trades == SelectSeq(df, LAMBDA r : r.NetPnL < 0)
        b1 == loss_between(losing_trades, 0, -3000)
        b2 == loss_between(losing_trades, -3000, -5000)
        b3 == loss_between(losing_trades, -5000, -10000)
        b4 == SelectSeq(losing_trades, LAMBDA r : r.NetPnL < -10000)
        line(label, b) == [severity |-> label, count |-> Len(b), total |-> SumInts(NetPnL(b))]
    IN  IF Len(losing_trades) = 0 THEN <<>>
        ELSE <<line("Small (0 - 3k)", b1), line("Medium (3k - 5k)", b2),
               line("Large (5k - 10k)", b3), line("Massive (> 10k)", b4)>>

(***************************************************************************)
(* create_matrix: the Month-by-Year table.  DataFrame.pivot makes a column *)
(* for every month that occurs in the data, in calendar order.             *)
(***************************************************************************)
\* a cell that takes the month's records of every year
matrix_cell_any_year(df, year, month) ==
    SumInts(NetPnL(SelectSeq(df, LAMBDA r : MonthOf(r.Date) = month)))

\* df.groupby(['Year', 'Month'])['Net P&L'].sum() at (year, month), 0 after
\* fillna(0) when the pair has no record
matrix_cell(df, year, month) ==
    SumInts(NetPnL(SelectSeq(df, LAMBDA r : /\ YearOf(r.Date) = year
                                            /\ MonthOf(r.Date) = month)))

create_matrix(df, investment) ==
    LET years == SortedSeq({YearOf(df[j].Date) : j \in 1..Len(df)})
        present == {MonthOf(df[j].Date) : j \in 1..Len(df)}
        month_columns == SelectSeq(months, LAMBDA m : m \in present)
        cell(year, month) == matrix_cell(df, year, month)
        yearly_total(year) ==
            SumInts([c \in 1..Len(month_columns) |-> cell(year, month_columns[c])])
        year_row(year) ==
            [index |-> [str |-> year],
             months |-> [c \in 1..Len(month_columns) |-> Num(cell(year, month_columns[c]))],
             total |-> Num(yearly_total(year)),
             return_pct |-> XMul(XDiv(Num(yearly_total(year)), Num(investment)), Num(100))]
        grand == SumInts([y \in 1..Len(years) |-> yearly_total(years[y])])
        grand_total ==
            [index |-> "Grand Total",
             months |-> [c \in 1..Len(month_columns) |->
                            Num(SumInts([y \in 1..Len(years) |->
                                            cell(years[y], month_columns[c])]))],
             total |-> Num(grand),
             return_pct |-> XMul(XDiv(Num(grand), Num(investment)), Num(100))]
    IN  [columns |-> month_columns \o <<"Yearly Total", "Yearly Return (%)">>,
         rows |-> [y \in 1..Len(years) |-> year_row(years[y])] \o <<grand_total>>]

(***************************************************************************)
(* Bounds and the inputs drawn from them                                   *)
(***************************************************************************)
MaxTrades == 2

MaxDay == 3

PnLValues == {-2, -1, 0, 1}

RunUpValues == {0}

Investments == {1, 2}

RfRates == {0, 2520}

Slippages == {0, 1}

SimulationCounts == {1, 2}

Modes == {"linear", "proportional"}

TaxRates == {0, 10}

Windows == {1, 2}

\* the compounding simulation runs over datasets that span three calendar
\* years: 2024-12-30, 2025-01-01 and 2026-01-01
MaxCompTrades == 3

CompDates == {1, 3, 368}

CompPnLValues == {-3, -1, 2}

\* the monthly matrix runs over datasets with records on 2024-12-30,
\* 2025-01-01, 2025-02-01 and 2026-01-01
MaxMatrixTrades == 3

MatrixDates == {1, 3, 34, 368}

MatrixPnLValues == {-1, 2}

\* the loss breakdown runs over losses at both sides of every bucket limit
MaxLossTrades == 3

LossPnLValues == {1000, 0, -1, -3000, -3001, -5000, -5001, -10000, -10001}

\* the run-up analysis runs over run-ups at both sides of every bucket limit
MaxTslTrades == 2

TslRunUps == {0, 2999, 3000, 4999, 5000, 7999, 8000, 11999, 12000, 19999, 20000}

TslPnLValues == {-1000, -400, 500}

\* the drawdown duration runs over date-ascending frames with a 'Drawdown %'
\* column: below zero, zero, or NaN (a running peak of zero)
MaxDurationRecords == 4

MaxDurationDay == 4

DrawdownValues == {Num(-1), Num(0), NaN}

\* the leaderboard runs over smaller inputs: two metrics bundles per state
LbDates == {1, 2, 3}

LbPnLValues == {-1, 1}

LbInvestments == {2}

LbRfRates == {0}

FileNames == <<<<"a", ".xlsx">>, <<"b", ".xls">>>>

Rows == {Row(d, p, r) : d \in 1..MaxDay, p \in PnLValues, r \in RunUpValues}

SeqsUpTo(S, n) == UNION {[1..m -> S] : m \in 0..n}

Datasets == SeqsUpTo(Rows, MaxTrades)

LbDatasets == SeqsUpTo({Row(d, p, 0) : d \in LbDates, p \in LbPnLValues}, MaxTrades)

\* the datasets a second strategy is drawn from
LbOthers == {<<Row(2, 1, 0)>>, <<Row(1, 1, 0), Row(2, -1, 0)>>}

CompDatasets ==
    SeqsUpTo({Row(d, p, 0) : d \in CompDates, p \in CompPnLValues}, MaxCompTrades)

MatrixDatasets ==
    SeqsUpTo({Row(d, p, 0) : d \in MatrixDates, p \in MatrixPnLValues}, MaxMatrixTrades)

\* the four losses of the end-to-end example
LossExample == <<Row(1, -1000, 0), Row(1, -4000, 0), Row(1, -7000, 0), Row(1, -15000, 0)>>

LossDatasets ==
    SeqsUpTo({Row(1, p, 0) : p \in LossPnLValues}, MaxLossTrades) \cup {LossExample}

TslDatasets ==
    SeqsUpTo({Row(1, p, r) : p \in TslPnLValues, r \in TslRunUps}, MaxTslTrades)

\* the metrics also run on a four-trade dataset with an investment of 10000
MetricsExample == <<Row(3, 1000, 0), Row(4, -400, 0), Row(5, 1000, 0), Row(6, -2000, 0)>>

MetricsInputs ==
    {[df |-> df, investment |-> i] : df \in Datasets, i \in Investments}
        \cup {[df |-> MetricsExample, investment |-> 10000]}

\* the load loop runs over a selection of up to MaxSelected of the files of
\* the data folder, each under its own base name
MaxSelected == 3

DataFolder == <<"data/">>

AvailableFiles ==
    {DataFolder \o <<"a", ".xlsx">>, DataFolder \o <<"b", ".xls">>,
     DataFolder \o <<"c", ".xlsx">>, DataFolder \o <<"d", ".xlsx">>}

\* the selections: sequences of distinct available files, at least one
SelectedFiles ==
    {s \in SeqsUpTo(AvailableFiles, MaxSelected) :
        Len(s) > 0 /\ \A i, j \in 1..Len(s) : i # j => s[i] # s[j]}

\* os.path.basename: the path without its folder
basename(f) == SubSeq(f, Len(DataFolder) + 1, Len(f))

\* load_data_cached: the frame read from a file, None when the file cannot be
\* read as a list of trades, an empty frame when it holds no exit
load_data_cached(f) ==
    CASE basename(f) = <<"a", ".xlsx">> -> [k |-> "DataFrame", v |-> <<Row(1, 1, 0), Row(2, -1, 0)>>]
      [] basename(f) = <<"b", ".xls">> -> [k |-> "DataFrame", v |-> <<Row(2, 1, 0)>>]
      [] basename(f) = <<"d", ".xlsx">> -> [k |-> "DataFrame", v |-> <<>>]
      [] OTHER -> None

\* used_files extended whatever the load returned
used_files_always_appended(used_files, f, d) == Append(used_files, basename(f))

\* app.py:157-159: used_files after a pass of the loop
used_files_appended(used_files, f, d) ==
    IF d # None THEN Append(used_files, basename(f)) ELSE used_files

DurationRows == [Date : 1..MaxDurationDay, DD : DrawdownValues]

DurationFrames ==
    {df \in SeqsUpTo(DurationRows, MaxDurationRecords) :
        \A i, j \in 1..Len(df) : i < j => df[i].Date <= df[j].Date}

Permutation(s, p) == [i \in 1..Len(s) |-> s[p[i]]]

\* a reshuffle that draws the values with replacement
PermsWithReplacement(n) == [1..n -> 1..n]

\* np.random.shuffle: the rearrangements of n positions
Perms(n) == {p \in [1..n -> 1..n] : \A i, j \in 1..n : p[i] = p[j] => i = j}

(***************************************************************************)
(* State                                                                   *)
(***************************************************************************)
VARIABLES
    store,       \* the DataFrame objects alive: object id -> rows, in row order
    all_dfs,     \* the object ids of the loaded datasets (app.py all_dfs)
    file_names,  \* their file names, by position (app.py used_files)
    op,          \* the function called last, or in progress ("" before any call)
    args,        \* its arguments; before: the rows of the datasets at the call
    ret,         \* what it returned: [k, v], k the kind of value ("DataFrame": v is
                 \* an object id of the store; "table": v holds a new frame's rows)
    pnl_array,   \* plot_monte_carlo: the array the loop shuffles in place
    final_vals,  \* plot_monte_carlo: the terminal value of every shuffled path
    fig_mc       \* plot_monte_carlo: the traces added to the figure, in order

vars == <<store, all_dfs, file_names, op, args, ret, pnl_array, final_vals, fig_mc>>

NoArgs == [none |-> TRUE]

NoRet == [k |-> "", v |-> <<>>]

Raise(exc) == [k |-> "raise", v |-> exc]

\* the dataset the dashboard works on (app.py final_df): the first object
final_df == store[1]

\* the objects the caller holds: what a call allocated before is dropped
\* the loaded objects with their records dropped
InputsEmptied == [i \in 1..Len(all_dfs) |-> <<>>]

Inputs == SubSeq(store, 1, Len(all_dfs))

\* no call has been made since the script started
Idle == op = ""

\* plot_monte_carlo is not running
MCReset == /\ pnl_array' = <<>>
           /\ final_vals' = <<>>
           /\ fig_mc' = <<>>

MCIdle == /\ pnl_array = <<>>
          /\ final_vals = <<>>
          /\ fig_mc = <<>>

(***************************************************************************)
(* The engine on one dataset                                               *)
(***************************************************************************)
Init ==
    /\ \E df \in Datasets : store = <<df>>
    /\ all_dfs = <<1>>
    /\ file_names = SubSeq(FileNames, 1, 1)
    /\ op = ""
    /\ args = NoArgs
    /\ ret = NoRet
    /\ MCIdle

CallMetrics ==
    /\ Idle
    /\ \E investment \in Investments, rf_rate \in RfRates :
          /\ args' = [investment |-> investment, rf_rate |-> rf_rate]
          /\ ret' = calculate_single_sheet_metrics(final_df, investment, rf_rate)
    /\ op' = "calculate_single_sheet_metrics"
    /\ store' = Inputs
    /\ MCReset
    /\ UNCHANGED <<all_dfs, file_names>>

\* app.py:235-243: the drawdown column of final_df, then its longest run
CallDrawdownDuration ==
    /\ Idle
    /\ \E investment \in Investments :
          /\ args' = [investment |-> investment]
          /\ ret' = [k |-> "int",
                     v |-> calculate_drawdown_duration(
                               [i \in 1..Len(final_df) |-> final_df[i].Date],
                               drawdown_pct(final_df, investment))]
    /\ op' = "calculate_drawdown_duration"
    /\ store' = Inputs
    /\ MCReset
    /\ UNCHANGED <<all_dfs, file_names>>

CallRollingSortino ==
    /\ Idle
    /\ \E window_days \in Windows, rf_rate \in RfRates :
          /\ args' = [window_days |-> window_days, rf_rate |-> rf_rate]
          /\ ret' = [k |-> "Series",
                     v |-> calculate_rolling_sortino(final_df, window_days, rf_rate)]
    /\ op' = "calculate_rolling_sortino"
    /\ store' = Inputs
    /\ MCReset
    /\ UNCHANGED <<all_dfs, file_names>>

CallCompounding ==
    /\ Idle
    /\ \E initial_capital \in Investments, mode \in Modes, tax_rate \in TaxRates :
          /\ args' = [initial_capital |-> initial_capital, mode |-> mode,
                      tax_rate |-> tax_rate]
          /\ ret' = [k |-> "table",
                     v |-> calculate_compounding_simulation(final_df, initial_capital,
                                                            mode, tax_rate)]
    /\ op' = "calculate_compounding_simulation"
    /\ store' = Inputs
    /\ MCReset
    /\ UNCHANGED <<all_dfs, file_names>>

CallTrailingSL ==
    /\ Idle
    /\ args' = NoArgs
    /\ ret' = [k |-> "tuple", v |-> calculate_trailing_sl_analysis(final_df)]
    /\ op' = "calculate_trailing_sl_analysis"
    /\ store' = Inputs
    /\ MCReset
    /\ UNCHANGED <<all_dfs, file_names>>

CallLossBreakdown ==
    /\ Idle
    /\ args' = NoArgs
    /\ ret' = [k |-> "table", v |-> calculate_loss_breakdown(final_df)]
    /\ op' = "calculate_loss_breakdown"
    /\ store' = Inputs
    /\ MCReset
    /\ UNCHANGED <<all_dfs, file_names>>

CallMatrix ==
    /\ Idle
    /\ \E investment \in Investments :
          /\ args' = [investment |-> investment]
          /\ ret' = [k |-> "pivot", v |-> create_matrix(final_df, investment)]
    /\ op' = "create_matrix"
    /\ store' = Inputs
    /\ MCReset
    /\ UNCHANGED <<all_dfs, file_names>>

\* app.py:182: apply_slippage on a dataset the dashboard holds
CallApplySlippage ==
    /\ Idle
    /\ \E i \in 1..Len(all_dfs), slippage \in Slippages :
          LET r == apply_slippage(Inputs, all_dfs[i], slippage)
          IN  /\ args' = [df |-> all_dfs[i], slippage |-> slippage, before |-> Inputs]
              /\ store' = r.store
              /\ ret' = [k |-> "DataFrame", v |-> r.ref]
    /\ op' = "apply_slippage"
    /\ MCReset
    /\ UNCHANGED <<all_dfs, file_names>>

\* charts.py:150-157: the copy of the values, the original path, the empty list
MonteCarloStart ==
    /\ Idle
    /\ \E simulations \in SimulationCounts : args' = [simulations |-> simulations]
    /\ op' = "plot_monte_carlo"
    /\ ret' = NoRet
    /\ pnl_array' = NetPnL(final_df)
    /\ fig_mc' = <<cumsum(NetPnL(final_df))>>
    /\ final_vals' = <<>>
    /\ store' = Inputs
    /\ UNCHANGED <<all_dfs, file_names>>

\* charts.py:158-163: one pass of the loop; sim_curve[-1] raises IndexError
\* on an empty array
MonteCarloShuffle ==
    /\ op = "plot_monte_carlo" /\ ret.k = ""
    /\ Len(final_vals) < args.simulations
    /\ \E p \in Perms(Len(pnl_array)) :
          LET shuffled == Permutation(pnl_array, p)
              sim_curve == cumsum(shuffled)
          IN  /\ pnl_array' = shuffled
              /\ IF Len(sim_curve) = 0
                 THEN /\ ret' = Raise("IndexError")
                      /\ UNCHANGED <<final_vals, fig_mc>>
                 ELSE /\ final_vals' = Append(final_vals, sim_curve[Len(sim_curve)])
                      /\ fig_mc' = Append(fig_mc, sim_curve)
                      /\ ret' = ret
    /\ UNCHANGED <<store, all_dfs, file_names, op, args>>

\* charts.py:165-166: return fig_mc, np.mean(final_vals)
MonteCarloReturn ==
    /\ op = "plot_monte_carlo" /\ ret.k = ""
    /\ Len(final_vals) = args.simulations
    /\ ret' = [k |-> "tuple", v |-> [fig_mc |-> fig_mc, expected |-> mean(AsVals(final_vals))]]
    /\ UNCHANGED <<store, all_dfs, file_names, op, args, pnl_array, final_vals, fig_mc>>

\* Streamlit runs app.py again from the top on every interaction: what the last
\* run computed is dropped, the loaded datasets are kept (load_data_cached)
Rerun ==
    /\ op # "" /\ ret.k # ""
    /\ op' = ""
    /\ args' = NoArgs
    /\ ret' = NoRet
    /\ store' = Inputs
    /\ MCReset
    /\ UNCHANGED <<all_dfs, file_names>>

Next ==
    \/ Rerun
    \/ CallMetrics
    \/ CallApplySlippage
    \/ CallDrawdownDuration
    \/ CallRollingSortino
    \/ CallCompounding
    \/ CallTrailingSL
    \/ CallLossBreakdown
    \/ CallMatrix
    \/ MonteCarloStart
    \/ MonteCarloShuffle
    \/ MonteCarloReturn

Spec == Init /\ [][Next]_vars

(***************************************************************************)
(* The leaderboard over one or two loaded strategies                       *)
(***************************************************************************)
InitLeaderboard ==
    /\ \E d1 \in LbDatasets, d2 \in LbOthers :
          store \in {<<d1>>, <<d1, d2>>, <<d2, d1>>}
    /\ all_dfs = [i \in 1..Len(store) |-> i]
    /\ file_names = SubSeq(FileNames, 1, Len(store))
    /\ op = ""
    /\ args = NoArgs
    /\ ret = NoRet
    /\ MCIdle

\* the call with the arguments a returning r: the DataFrame objects the
\* function made are dropped when it returns
LeaderboardReturn(a, r) ==
    /\ args' = a
    /\ store' = SubSeq(r.store, 1, Len(all_dfs))
    /\ ret' = [k |-> "table", v |-> r.data]

LeaderboardCall(a) ==
    LeaderboardReturn(a, get_optimized_leaderboard(Inputs, all_dfs, file_names, a))

\* app.py:185 through get_cached_leaderboard
CallLeaderboard ==
    /\ Idle
    /\ \E start_date \in LbDates, end_date \in LbDates,
          investment \in LbInvestments, rf_rate \in LbRfRates, slippage \in Slippages :
          /\ start_date <= end_date
          /\ LeaderboardCall([start_date |-> start_date, end_date |-> end_date,
                              investment |-> investment, rf_rate |-> rf_rate,
                              slippage |-> slippage, before |-> Inputs])
    /\ op' = "get_optimized_leaderboard"
    /\ MCReset
    /\ UNCHANGED <<all_dfs, file_names>>

NextLeaderboard ==
    \/ Rerun
    \/ CallLeaderboard
    \/ CallApplySlippage

SpecLeaderboard == InitLeaderboard /\ [][NextLeaderboard]_vars

(***************************************************************************)
(* calculate_compounding_simulation on a dataset of several years          *)
(***************************************************************************)
InitCompounding ==
    /\ \E df \in CompDatasets : store = <<df>>
    /\ all_dfs = <<1>>
    /\ file_names = SubSeq(FileNames, 1, 1)
    /\ op = ""
    /\ args = NoArgs
    /\ ret = NoRet
    /\ MCIdle

NextCompounding ==
    \/ Rerun
    \/ CallCompounding

SpecCompounding == InitCompounding /\ [][NextCompounding]_vars

(***************************************************************************)
(* create_matrix on a dataset of several months and years                  *)
(***************************************************************************)
InitMatrix ==
    /\ \E df \in MatrixDatasets : store = <<df>>
    /\ all_dfs = <<1>>
    /\ file_names = SubSeq(FileNames, 1, 1)
    /\ op = ""
    /\ args = NoArgs
    /\ ret = NoRet
    /\ MCIdle

NextMatrix ==
    \/ Rerun
    \/ CallMatrix

SpecMatrix == InitMatrix /\ [][NextMatrix]_vars

(***************************************************************************)
(* calculate_loss_breakdown on losses of every severity                    *)
(***************************************************************************)
InitLoss ==
    /\ \E df \in LossDatasets : store = <<df>>
    /\ all_dfs = <<1>>
    /\ file_names = SubSeq(FileNames, 1, 1)
    /\ op = ""
    /\ args = NoArgs
    /\ ret = NoRet
    /\ MCIdle

NextLoss ==
    \/ Rerun
    \/ CallLossBreakdown

SpecLoss == InitLoss /\ [][NextLoss]_vars

(***************************************************************************)
(* calculate_trailing_sl_analysis on run-ups of every range                *)
(***************************************************************************)
InitTrailingSL ==
    /\ \E df \in TslDatasets : store = <<df>>
    /\ all_dfs = <<1>>
    /\ file_names = SubSeq(FileNames, 1, 1)
    /\ op = ""
    /\ args = NoArgs
    /\ ret = NoRet
    /\ MCIdle

NextTrailingSL ==
    \/ Rerun
    \/ CallTrailingSL

SpecTrailingSL == InitTrailingSL /\ [][NextTrailingSL]_vars

(***************************************************************************)
(* calculate_drawdown_duration on a frame with its 'Drawdown %' column     *)
(***************************************************************************)
InitDuration ==
    /\ \E df \in DurationFrames : store = <<df>>
    /\ all_dfs = <<1>>
    /\ file_names = SubSeq(FileNames, 1, 1)
    /\ op = ""
    /\ args = NoArgs
    /\ ret = NoRet
    /\ MCIdle

CallDuration ==
    /\ Idle
    /\ args' = NoArgs
    /\ ret' = [k |-> "int",
               v |-> calculate_drawdown_duration(
                         [i \in 1..Len(final_df) |-> final_df[i].Date],
                         [i \in 1..Len(final_df) |-> final_df[i].DD])]
    /\ op' = "calculate_drawdown_duration"
    /\ store' = Inputs
    /\ MCReset
    /\ UNCHANGED <<all_dfs, file_names>>

NextDuration ==
    \/ Rerun
    \/ CallDuration

SpecDuration == InitDuration /\ [][NextDuration]_vars

(***************************************************************************)
(* calculate_single_sheet_metrics on its own                               *)
(***************************************************************************)
InitMetrics ==
    /\ \E inp \in MetricsInputs : store = <<inp.df>>
    /\ all_dfs = <<1>>
    /\ file_names = SubSeq(FileNames, 1, 1)
    /\ op = ""
    /\ args = NoArgs
    /\ ret = NoRet
    /\ MCIdle

CallMetricsOf ==
    /\ Idle
    /\ \E inp \in MetricsInputs, rf_rate \in RfRates :
          /\ inp.df = final_df
          /\ args' = [investment |-> inp.investment, rf_rate |-> rf_rate]
          /\ ret' = calculate_single_sheet_metrics(final_df, inp.investment, rf_rate)
    /\ op' = "calculate_single_sheet_metrics"
    /\ store' = Inputs
    /\ MCReset
    /\ UNCHANGED <<all_dfs, file_names>>

\* a second call with the arguments of the first: args remembers the first
\* result and the dataset as it was handed over
CallMetricsAgain ==
    /\ op = "calculate_single_sheet_metrics"
    /\ DOMAIN args = {"investment", "rf_rate"}
    /\ args' = [investment |-> args.investment, rf_rate |-> args.rf_rate,
                first |-> ret, before |-> final_df]
    /\ ret' = calculate_single_sheet_metrics(final_df, args.investment, args.rf_rate)
    /\ store' = Inputs
    /\ MCReset
    /\ UNCHANGED <<all_dfs, file_names, op>>

NextMetrics ==
    \/ Rerun
    \/ CallMetricsOf
    \/ CallMetricsAgain

SpecMetrics == InitMetrics /\ [][NextMetrics]_vars

(***************************************************************************)
(* The load loop of the dashboard (app.py:151-161), then the leaderboard.  *)
(* While the loop runs, args holds the selection and the number of passes  *)
(* made.                                                                   *)
(***************************************************************************)
InitLoad ==
    /\ \E selected_files \in SelectedFiles : args = [selected_files |-> selected_files, i |-> 0]
    /\ store = <<>>
    /\ all_dfs = <<>>
    /\ file_names = <<>>
    /\ op = "load_loop"
    /\ ret = NoRet
    /\ MCIdle

\* all_dfs.append(d): the frame becomes a new object
LoadAppend(d) ==
    IF d # None
    THEN store' = Append(store, d.v) /\ all_dfs' = Append(all_dfs, Len(store) + 1)
    ELSE UNCHANGED <<store, all_dfs>>

\* one pass of the loop
LoadFile ==
    /\ op = "load_loop"
    /\ args.i < Len(args.selected_files)
    /\ LoadAppend(load_data_cached(args.selected_files[args.i + 1]))
    /\ file_names' = used_files_appended(file_names, args.selected_files[args.i + 1],
                                         load_data_cached(args.selected_files[args.i + 1]))
    /\ args' = [args EXCEPT !.i = @ + 1]
    /\ UNCHANGED <<op, ret, pnl_array, final_vals, fig_mc>>

\* app.py:163-167: the dashboard goes on when something was loaded and the
\* frames together hold a record
LoadDone ==
    /\ op = "load_loop"
    /\ args.i = Len(args.selected_files)
    /\ all_dfs # <<>>
    /\ Concat([i \in 1..Len(all_dfs) |-> store[all_dfs[i]]]) # <<>>
    /\ op' = ""
    /\ args' = NoArgs
    /\ UNCHANGED <<store, all_dfs, file_names, ret, pnl_array, final_vals, fig_mc>>

NextLoad ==
    \/ LoadFile
    \/ LoadDone
    \/ CallLeaderboard

SpecLoad == InitLoad /\ [][NextLoad]_vars

(***************************************************************************)
(* The claims.  MetricsCalled: calculate_single_sheet_metrics has returned *)
(* for a non-empty dataset (investment > 0 in every call).                 *)
(***************************************************************************)
MetricsCalled == op = "calculate_single_sheet_metrics" /\ Len(final_df) > 0

Metric(f) == ret.v[f]

IsNumber(a) == a.k \in {"rat", "sqrt"}

IsZero(a) == a = Num(0)

\* C1: for a non-empty dataset without a losing trade (no net_pnl < 0) and
\* investment > 0, Profit Factor and Risk:Reward are both 0, and neither is
\* NaN or infinite.
C1_NoLoserRatiosAreZero ==
    (MetricsCalled /\ \A i \in 1..Len(final_df) : final_df[i].NetPnL >= 0)
        => /\ ret.k = "dict"
           /\ IsZero(Metric("Profit Factor"))
           /\ IsZero(Metric("Risk:Reward"))

\* the denominators of the ratios, from the dataset and the arguments of the call
DailyRets == daily_returns(final_df, args.investment)

DailyRf == daily_rf_of(args.rf_rate)

LoserPnL == SelectSeq(NetPnL(final_df), LAMBDA p : p < 0)

ZeroOrUndefined(a) == ~IsNumber(a) \/ IsZero(a)

\* C2: for a non-empty dataset and investment > 0 the result has exactly the
\* 14 named fields, every one a defined number (not null, NaN or infinite),
\* and every ratio whose denominator is zero or undefined is exactly 0.
C2_AllFieldsDefinedNumbers ==
    MetricsCalled
        => /\ ret.k = "dict"
           /\ DOMAIN ret.v = MetricNames
           /\ \A f \in MetricNames : IsNumber(Metric(f))
           /\ ZeroOrUndefined(std(DailyRets)) => IsZero(Metric("Sharpe"))
           /\ ZeroOrUndefined(downside_deviation(DailyRets, DailyRf))
                 => IsZero(Metric("Sortino"))
           /\ IsZero(SumVals(SelectSeq(DailyRets, LAMBDA r : r.n < 0)))
                 => IsZero(Metric("Omega"))
           /\ IsZero(quantile(DailyRets, 5, 100)) => IsZero(Metric("Tail Ratio"))
           /\ SumInts(LoserPnL) = 0 => IsZero(Metric("Profit Factor"))
           /\ Len(LoserPnL) = 0 => IsZero(Metric("Risk:Reward"))
           /\ ZeroOrUndefined(Metric("Max DD %")) => IsZero(Metric("Calmar"))

\* the running equity after the i-th trade, in row order
EquityAfter(i) == args.investment + SumInts(SubSeq(NetPnL(final_df), 1, i))

EquityNeverBelowPeak ==
    \A i \in 1..Len(final_df) : \A j \in 1..i : EquityAfter(i) >= EquityAfter(j)

\* C3: for a non-empty dataset and investment > 0, Max DD % <= 0, and it is
\* exactly 0 if and only if the running equity never falls below its running
\* peak, also when losses drive the equity and the peak to zero or below.
C3_MaxDrawdownSign ==
    MetricsCalled
        => /\ ret.k = "dict"
           /\ XLeq(Metric("Max DD %"), Num(0))
           /\ IsZero(Metric("Max DD %")) <=> EquityNeverBelowPeak

SameRecords(d1, d2) ==
    /\ Len(d1) = Len(d2)
    /\ \E p \in Perms(Len(d1)) : Permutation(d1, p) = d2

LeaderboardCalled == op = "get_optimized_leaderboard"

\* C4: drawdown is accumulated in ascending date order whatever the row order:
\* two strategies holding the same records in different row orders get the
\* same Max DD % and the same Calmar in their leaderboard rows.
C4_RowOrderDoesNotMatter ==
    (/\ LeaderboardCalled
     /\ Len(all_dfs) = 2
     /\ Len(ret.v) = 2
     /\ SameRecords(store[1], store[2]))
        => /\ ret.v[1]["Max DD %"] = ret.v[2]["Max DD %"]
           /\ ret.v[1]["Calmar"] = ret.v[2]["Calmar"]

\* the downside deviation of the claim: the mean is taken over all days
DownsideDevOverAllDays ==
    LET sq == [j \in 1..Len(DailyRets) |->
                  IF XLess(DailyRets[j], DailyRf)
                  THEN XMul(XSub(DailyRets[j], DailyRf), XSub(DailyRets[j], DailyRf))
                  ELSE Num(0)]
    IN  XSqrt(XDiv(SumVals(sq), Num(Len(DailyRets))))

MeanExcess == mean([j \in 1..Len(DailyRets) |-> XSub(DailyRets[j], DailyRf)])

\* C5: the downside deviation Sortino divides by is the square root of the
\* mean over ALL days of the daily series of the squared excess return of the
\* days below daily_rf (0 for the other days): the divisor is the number of
\* days, not the number of days below the target.
C5_DownsideOverAllDays ==
    (MetricsCalled /\ \E j \in 1..Len(DailyRets) : XLess(DailyRets[j], DailyRf))
        => /\ ret.k = "dict"
           /\ Metric("Sortino")
                 = XMul(XDiv(MeanExcess, DownsideDevOverAllDays), XSqrt(Num(252)))

\* the strategies with a record inside the window of the call, in input order
InWindow(i) ==
    \E j \in 1..Len(store[all_dfs[i]]) :
        /\ store[all_dfs[i]][j].Date >= args.start_date
        /\ store[all_dfs[i]][j].Date <= args.end_date

Ranked == SelectSeq([i \in 1..Len(all_dfs) |-> i], InWindow)

\* C6: the leaderboard holds exactly one row for each strategy with a record
\* in [start, end] (both ends included), none for the others, nothing is
\* raised, and the rows keep the order of the input pairs.
C6_OneRowPerStrategyInWindow ==
    LeaderboardCalled
        => /\ ret.k = "table"
           /\ Len(ret.v) = Len(Ranked)
           /\ \A j \in 1..Len(ret.v) :
                 ret.v[j]["Strategy"] = str_replace_xlsx(file_names[Ranked[j]])

C6_Witness ==
    /\ LeaderboardCalled
    /\ Len(all_dfs) = 2
    /\ Len(store[all_dfs[1]]) > 0
    /\ ~InWindow(1)
    /\ InWindow(2)
    /\ Len(ret.v) = 1
    /\ \E j \in 1..Len(store[all_dfs[2]]) : store[all_dfs[2]][j].Date = args.end_date

\* the records of the i-th strategy inside the window of the call
Windowed(i) ==
    SelectSeq(store[all_dfs[i]],
              LAMBDA r : r.Date >= args.start_date /\ r.Date <= args.end_date)

\* C7: a leaderboard row is computed after the slippage is subtracted from
\* every record in the window: Trades = n, Net Profit = sum of net_pnl minus
\* n * slippage, and a record is a win only if net_pnl - slippage > 0.
C7_SlippageOnEveryRecord ==
    (LeaderboardCalled /\ Len(ret.v) = Len(Ranked))
        => \A j \in 1..Len(ret.v) :
              LET w == NetPnL(Windowed(Ranked[j]))
                  n == Len(w)
                  wins == Len(SelectSeq(w, LAMBDA p : p - args.slippage > 0))
              IN  /\ ret.v[j]["Trades"] = Num(n)
                  /\ ret.v[j]["Net Profit"] = Num(SumInts(w) - n * args.slippage)
                  /\ ret.v[j]["Win Rate %"] = Rat(wins * 100, n)

C7_Witness ==
    /\ LeaderboardCalled
    /\ args.slippage > 0
    /\ \E j \in 1..Len(ret.v) :
          /\ j <= Len(Ranked)
          /\ Len(Windowed(Ranked[j])) = 2
          /\ \E i \in 1..2 : Windowed(Ranked[j])[i].NetPnL = args.slippage
          /\ ret.v[j]["Win Rate %"] = Num(0)

MonteCarloRunning == op = "plot_monte_carlo" /\ Len(final_df) > 0

Last(s) == s[Len(s)]

\* C8: for a non-empty P&L sequence and N >= 1 every shuffled cumulative path
\* ends at the sum of the original values, so the expected outcome returned is
\* that sum; the first path is the prefix sums in the original order, whatever
\* the later shuffles do.
C8_MonteCarloTerminalValue ==
    MonteCarloRunning
        => LET total == SumInts(NetPnL(final_df))
           IN  /\ ret.k # "raise"
               /\ fig_mc[1] = cumsum(NetPnL(final_df))
               /\ \A i \in 2..Len(fig_mc) : Last(fig_mc[i]) = total
               /\ \A i \in 1..Len(final_vals) : final_vals[i] = total
               /\ ret.k = "tuple"
                     => /\ ret.v.expected = Num(total)
                        /\ ret.v.fig_mc = fig_mc
                        /\ Len(fig_mc) = 1 + args.simulations

C8_Witness ==
    /\ MonteCarloRunning
    /\ ret.k = "tuple"
    /\ args.simulations = 2
    /\ fig_mc[2] # fig_mc[1]
    /\ fig_mc[3] # fig_mc[2]

\* C9: no transformation changes the dataset it is given and each yields a new
\* dataset: after apply_slippage and after get_optimized_leaderboard the input
\* datasets hold the rows they held before, and apply_slippage returns an
\* object distinct from its input for every slippage (0 too) and an empty input.
C9_NewDatasetNeverTheInput ==
    /\ op \in {"apply_slippage", "get_optimized_leaderboard"}
          => SubSeq(store, 1, Len(all_dfs)) = args.before
    /\ op = "apply_slippage" => ret.v # args.df

\* C10: every component takes an empty dataset without raising:
\* calculate_drawdown_duration returns 0, calculate_single_sheet_metrics no
\* result, calculate_loss_breakdown and calculate_trailing_sl_analysis an
\* empty result, and calculate_compounding_simulation, create_matrix,
\* calculate_rolling_sortino and plot_monte_carlo (N >= 1) return a value.
C10_EmptyDatasetNeverRaises ==
    (Len(final_df) = 0 /\ op # "")
        => /\ ret.k # "raise"
           /\ op = "calculate_drawdown_duration" => ret = [k |-> "int", v |-> 0]
           /\ op = "calculate_single_sheet_metrics" => ret = None
           /\ op = "calculate_loss_breakdown" => ret = [k |-> "table", v |-> <<>>]
           /\ op = "calculate_trailing_sl_analysis"
                 => ret.k = "tuple" /\ ret.v.summary = None /\ ret.v.losers = <<>>
           /\ op \in {"calculate_compounding_simulation", "create_matrix",
                      "calculate_rolling_sortino"} => ret.k # ""

(***************************************************************************)
(* calculate_compounding_simulation.  CompoundingCalled: it has returned   *)
(* its table; RawOfYear: the sum of the Net P&L of the records of a year.  *)
(***************************************************************************)
CompoundingCalled == op = "calculate_compounding_simulation" /\ ret.k = "table"

YearSet == {YearOf(final_df[i].Date) : i \in 1..Len(final_df)}

RawOfYear(year) ==
    SumInts([i \in 1..Len(final_df) |->
                IF YearOf(final_df[i].Date) = year THEN final_df[i].NetPnL ELSE 0])

\* C11: with mode=linear the i-th year present (ascending, from 0) is scaled
\* by 1 + i, tax is taken only from a positive scaled profit, and Net Profit
\* is raw * (1 + i) * (1 - tax_rate/100) when raw > 0 and raw * (1 + i) when
\* raw <= 0; year 0 has scaling 1.0.
C11_LinearScalingAndTax ==
    (CompoundingCalled /\ args.mode = "linear")
        => \A j \in 1..Len(ret.v) :
              LET raw == RawOfYear(ret.v[j]["Year"])
                  scaled == XMul(Num(raw), Num(j))
              IN  /\ ret.v[j]["Raw Profit"] = Num(raw)
                  /\ ret.v[j]["Scaling Factor"] = [hundredths |-> 100 * j, suffix |-> "x"]
                  /\ ret.v[j]["Tax/Fee"] =
                        IF raw > 0 THEN XMul(scaled, Rat(args.tax_rate, 100)) ELSE Num(0)
                  /\ ret.v[j]["Net Profit"] =
                        IF raw > 0 THEN XMul(scaled, Rat(100 - args.tax_rate, 100))
                        ELSE scaled

\* a linear run over two years with tax, the second year with a profit and
\* the first with a loss
C11_Witness ==
    /\ CompoundingCalled
    /\ args.mode = "linear"
    /\ args.tax_rate > 0
    /\ Len(ret.v) >= 2
    /\ RawOfYear(ret.v[1]["Year"]) < 0
    /\ RawOfYear(ret.v[2]["Year"]) > 0

\* C12: one row per distinct calendar year of the dataset, in ascending year
\* order; the first Start Balance is initial_capital, every End Balance is
\* Start Balance + Net Profit, every later Start Balance is the previous End
\* Balance, and Yearly Growth % is 0 whenever Start Balance <= 0.
C12_OneRowPerYearBalancesChain ==
    CompoundingCalled
        => /\ Len(ret.v) = Cardinality(YearSet)
           /\ {ret.v[j]["Year"] : j \in 1..Len(ret.v)} = YearSet
           /\ \A j, k \in 1..Len(ret.v) : j < k => ret.v[j]["Year"] < ret.v[k]["Year"]
           /\ Len(ret.v) > 0 => ret.v[1]["Start Balance"] = Num(args.initial_capital)
           /\ \A j \in 1..Len(ret.v) :
                 /\ ret.v[j]["End Balance"] =
                       XAdd(ret.v[j]["Start Balance"], ret.v[j]["Net Profit"])
                 /\ j > 1 => ret.v[j]["Start Balance"] = ret.v[j - 1]["End Balance"]
                 /\ ret.v[j]["Start Balance"].n <= 0 => ret.v[j]["Yearly Growth %"] = Num(0)

\* three years in the table, the last one starting from a balance of zero or
\* less
C12_Witness ==
    /\ CompoundingCalled
    /\ Len(ret.v) = 3
    /\ ret.v[3]["Start Balance"].n <= 0
    /\ ret.v[3]["Net Profit"].n # 0

\* max(0.1, equity at the start of the year / initial_capital)
FlooredScale(start_bal) ==
    IF XLeq(XDiv(start_bal, Num(args.initial_capital)), Rat(1, 10)) THEN Rat(1, 10)
    ELSE XDiv(start_bal, Num(args.initial_capital))

\* C13: with mode=proportional each year's scaling factor is max(0.1, equity
\* at the start of the year / initial_capital): 1 in the first year, 0.1 once
\* the equity is at or below zero, so a year's scaled profit (Net Profit +
\* Tax/Fee) is its raw profit times that factor and a losing year stays a loss.
C13_ProportionalScaleFloored ==
    (CompoundingCalled /\ args.mode = "proportional")
        => \A j \in 1..Len(ret.v) :
              LET scale == FlooredScale(ret.v[j]["Start Balance"])
              IN  /\ XAdd(ret.v[j]["Net Profit"], ret.v[j]["Tax/Fee"]) =
                        XMul(ret.v[j]["Raw Profit"], scale)
                  /\ ret.v[j]["Scaling Factor"] = format_2f_x(scale)
                  /\ j = 1 => scale = Num(1)
                  /\ ret.v[j]["Start Balance"].n <= 0 => scale = Rat(1, 10)
                  /\ ret.v[j]["Raw Profit"].n < 0 => ret.v[j]["Net Profit"].n < 0

\* a proportional run whose second year starts below zero and loses again, and
\* whose third year is still scaled by 0.1
C13_Witness ==
    /\ CompoundingCalled
    /\ args.mode = "proportional"
    /\ Len(ret.v) = 3
    /\ ret.v[2]["Start Balance"].n < 0
    /\ ret.v[2]["Raw Profit"].n < 0
    /\ ret.v[3]["Scaling Factor"] = [hundredths |-> 10, suffix |-> "x"]

(***************************************************************************)
(* create_matrix.  MatrixCalled: it has returned its table; GrandTotal:    *)
(* the last row of the table.                                              *)
(***************************************************************************)
MatrixCalled == op = "create_matrix" /\ ret.k = "pivot"

GrandTotal == ret.v.rows[Len(ret.v.rows)]

PnLOfMonth(month) ==
    SumInts([i \in 1..Len(final_df) |->
                IF MonthOf(final_df[i].Date) = month THEN final_df[i].NetPnL ELSE 0])

PnLOfAll == SumInts([i \in 1..Len(final_df) |-> final_df[i].NetPnL])

\* C14: in the Grand Total row each month is the sum of that month over all
\* years, Yearly Total is the sum of net_pnl over the whole dataset (the sum
\* of the per-year Yearly Totals), and Yearly Return (%) is that grand Yearly
\* Total / investment * 100.
C14_GrandTotalRow ==
    MatrixCalled
        => /\ GrandTotal.index = "Grand Total"
           /\ Len(GrandTotal.months) = Len(ret.v.columns) - 2
           /\ \A c \in 1..Len(GrandTotal.months) :
                 GrandTotal.months[c] = Num(PnLOfMonth(ret.v.columns[c]))
           /\ GrandTotal.total = Num(PnLOfAll)
           /\ GrandTotal.total =
                 SumVals([y \in 1..(Len(ret.v.rows) - 1) |-> ret.v.rows[y].total])
           /\ XMul(GrandTotal.return_pct, Num(args.investment)) = Num(100 * PnLOfAll)

\* a table of two years that both trade in January, with a non-zero total
C14_Witness ==
    /\ MatrixCalled
    /\ Len(ret.v.rows) = 3
    /\ ret.v.columns[1] = "January"
    /\ ret.v.rows[1].months[1] # Num(0)
    /\ ret.v.rows[2].months[1] # Num(0)
    /\ GrandTotal.total # Num(0)

\* C15: for a non-empty dataset the table has one row per year present, keyed
\* by the year as a string, then a Grand Total row, and its columns are the 12
\* month names in calendar order followed by Yearly Total and Yearly Return
\* (%); a (year, month) without a trade holds 0, also for a month in which no
\* year has a trade.
C15_TwelveMonthColumns ==
    (MatrixCalled /\ Len(final_df) > 0)
        => /\ ret.v.columns = months \o <<"Yearly Total", "Yearly Return (%)">>
           /\ Len(ret.v.rows) = Cardinality(YearSet) + 1
           /\ GrandTotal.index = "Grand Total"
           /\ \A y \in 1..(Len(ret.v.rows) - 1) :
                 /\ ret.v.rows[y].index.str \in YearSet
                 /\ Len(ret.v.rows[y].months) = 12
                 /\ \A c \in 1..Len(ret.v.rows[y].months) :
                       (\A i \in 1..Len(final_df) :
                           ~(/\ YearOf(final_df[i].Date) = ret.v.rows[y].index.str
                             /\ MonthOf(final_df[i].Date) = months[c]))
                          => ret.v.rows[y].months[c] = Num(0)

(***************************************************************************)
(* calculate_loss_breakdown.  LossCalled: it has returned its table;       *)
(* InRange: the records with lo <= Net P&L < hi.                           *)
(***************************************************************************)
LossCalled == op = "calculate_loss_breakdown" /\ ret.k = "table"

InRange(lo, hi) ==
    {i \in 1..Len(final_df) : lo <= final_df[i].NetPnL /\ final_df[i].NetPnL < hi}

Losers == {i \in 1..Len(final_df) : final_df[i].NetPnL < 0}

PnLOf(S) ==
    SumInts([i \in 1..Len(final_df) |-> IF i \in S THEN final_df[i].NetPnL ELSE 0])

\* the records with Net P&L below hi, whatever the size of the loss
Below(hi) == {i \in 1..Len(final_df) : final_df[i].NetPnL < hi}

\* C16: every losing trade is counted in exactly one of the four severity
\* buckets (Small -3000 <= pnl < 0, Medium -5000 <= pnl < -3000, Large
\* -10000 <= pnl < -5000, Massive pnl < -10000), so the Counts sum to the
\* number of losing trades and the Total Loss values to the sum of the losing
\* net_pnl; records with net_pnl >= 0 are counted nowhere.
C16_LossBucketsPartition ==
    LossCalled
        => /\ Losers # {} =>
                 /\ Len(ret.v) = 4
                 /\ ret.v[1] = [severity |-> "Small (0 - 3k)",
                                count |-> Cardinality(InRange(-3000, 0)),
                                total |-> PnLOf(InRange(-3000, 0))]
                 /\ ret.v[2] = [severity |-> "Medium (3k - 5k)",
                                count |-> Cardinality(InRange(-5000, -3000)),
                                total |-> PnLOf(InRange(-5000, -3000))]
                 /\ ret.v[3] = [severity |-> "Large (5k - 10k)",
                                count |-> Cardinality(InRange(-10000, -5000)),
                                total |-> PnLOf(InRange(-10000, -5000))]
                 /\ ret.v[4] = [severity |-> "Massive (> 10k)",
                                count |-> Cardinality(Below(-10000)),
                                total |-> PnLOf(Below(-10000))]
           /\ SumInts([b \in 1..Len(ret.v) |-> ret.v[b].count]) = Cardinality(Losers)
           /\ SumInts([b \in 1..Len(ret.v) |-> ret.v[b].total]) = PnLOf(Losers)

\* the end-to-end example: one loss, and that loss as total, in each bucket
C16_Witness ==
    /\ LossCalled
    /\ final_df = LossExample
    /\ [b \in 1..4 |-> ret.v[b].count] = <<1, 1, 1, 1>>
    /\ [b \in 1..4 |-> ret.v[b].total] = <<-1000, -4000, -7000, -15000>>

(***************************************************************************)
(* calculate_trailing_sl_analysis.  TslCalled: it has returned; Reported:  *)
(* the summary is a table; LosersWithRunUp: the losing trades whose run-up *)
(* is at least lo and, unless hi is Unbounded, below hi.                   *)
(***************************************************************************)
TslCalled == op = "calculate_trailing_sl_analysis" /\ ret.k = "tuple"

Reported == ret.v.summary.k = "table"

LosersWithRunUp(lo, hi) ==
    {i \in Losers : lo <= final_df[i].RunUp /\ (hi = Unbounded \/ final_df[i].RunUp < hi)}

BucketLine(label, S) ==
    [range |-> label,
     count |-> Cardinality(S),
     avg_loss |-> IF S = {} THEN Num(0) ELSE Rat(PnLOf(S), Cardinality(S))]

DurationCalled == op = "calculate_drawdown_duration" /\ ret.k = "int" /\ args = NoArgs

Underwater(i) == final_df[i].DD.k = "rat" /\ final_df[i].DD.n < 0

AllUnderwater(i, j) == i <= j /\ \A m \in i..j : Underwater(m)

\* C18: for a date-ascending series the result is the largest (last date -
\* first date), in days, of a contiguous run of records with Drawdown % < 0:
\* no such run spans more days, some run spans exactly that many unless the
\* result is 0, and it is 0 for an empty frame, when no record is underwater
\* and when every run lies on one date; a record that is not underwater
\* always ends the run before it.
C18_LongestUnderwaterRun ==
    DurationCalled
        => /\ \A i, j \in 1..Len(final_df) :
                 AllUnderwater(i, j) => final_df[j].Date - final_df[i].Date <= ret.v
           /\ \/ ret.v = 0
              \/ \E i, j \in 1..Len(final_df) :
                    AllUnderwater(i, j) /\ final_df[j].Date - final_df[i].Date = ret.v
           /\ Len(final_df) = 0 => ret.v = 0
           /\ (\A i \in 1..Len(final_df) : ~Underwater(i)) => ret.v = 0

\* two underwater stretches with a record at zero between them: the result is
\* the span of the longer stretch, less than the span from the first
\* underwater record to the last
C18_Witness ==
    /\ DurationCalled
    /\ Len(final_df) = 4
    /\ Underwater(1) /\ Underwater(2) /\ Underwater(4)
    /\ final_df[3].DD = Num(0)
    /\ ret.v = 2
    /\ final_df[4].Date - final_df[1].Date = 3

(***************************************************************************)
(* The headline fields of calculate_single_sheet_metrics.  A fraction n/d  *)
(* equals a/b when n * b = a * d.                                          *)
(***************************************************************************)
Winners == {i \in 1..Len(final_df) : final_df[i].NetPnL > 0}

IsFraction(x, a, b) == x.k = "rat" /\ x.n * b = a * x.d

\* C19: for investment > 0 and a non-empty dataset, Net Profit is the sum of
\* net_pnl, ROI % is Net Profit / investment * 100, Trades is the number of
\* records and Win Rate % is (records with net_pnl > 0) / Trades * 100; a
\* record with net_pnl = 0 is neither a win nor a loss (the average loss
\* behind Risk:Reward is taken over the records below zero only); trades
\* [+1000, -400, +1000, -2000] with investment 10000 give -400, -4 % and 50 %.
C19_HeadlineFields ==
    MetricsCalled
        => /\ ret.k = "dict"
           /\ Metric("Net Profit") = Num(PnLOfAll)
           /\ IsFraction(Metric("ROI %"), PnLOfAll * 100, args.investment)
           /\ Metric("Trades") = Num(Len(final_df))
           /\ IsFraction(Metric("Win Rate %"), Cardinality(Winners) * 100, Len(final_df))
           /\ (Winners # {} /\ Losers # {})
                 => IsFraction(Metric("Risk:Reward"),
                               Cardinality(Losers) * PnLOf(Winners),
                               Cardinality(Winners) * (0 - PnLOf(Losers)))
           /\ (final_df = MetricsExample /\ args.investment = 10000)
                 => /\ Metric("Net Profit") = Num(-400)
                    /\ Metric("ROI %") = Num(-4)
                    /\ Metric("Win Rate %") = Num(50)

\* the four-trade example has been computed
C19_Witness ==
    /\ MetricsCalled
    /\ final_df = MetricsExample
    /\ args.investment = 10000
    /\ Metric("Win Rate %") = Num(50)

\* a record at zero next to a winner: the win rate is 50 %
C19_FlatRecordWitness ==
    /\ MetricsCalled
    /\ Len(final_df) = 2
    /\ \E i \in 1..2 : final_df[i].NetPnL = 0
    /\ Winners # {}
    /\ Metric("Win Rate %") = Num(50)

(***************************************************************************)
(* Two calls of calculate_single_sheet_metrics in a row.                   *)
(***************************************************************************)
CalledAgain == op = "calculate_single_sheet_metrics" /\ "first" \in DOMAIN args

Extensions == {".xls", ".xlsx"}

Stem(name) == SubSeq(name, 1, Len(name) - 1)

\* C21: the Strategy value of every leaderboard row is the file name of its
\* strategy without the extension (.xls or .xlsx) at its end, every other
\* piece of the name kept.
C21_StrategyIsNameWithoutExtension ==
    LeaderboardCalled
        => \A j \in 1..Len(ret.v) :
              /\ file_names[Ranked[j]][Len(file_names[Ranked[j]])] \in Extensions
              /\ ret.v[j]["Strategy"] = Stem(file_names[Ranked[j]])

(***************************************************************************)
(* calculate_rolling_sortino.  DailyPnL(j): the sum of Net P&L on the j-th *)
(* calendar day from the first date, 0 on a day without records.  A value  *)
(* is the fraction n/d or, of kind "sqrt", the root of |n|/d with the sign *)
(* of n.                                                                   *)
(***************************************************************************)
SortinoCalled == op = "calculate_rolling_sortino" /\ ret.k = "Series"

FirstDate == MinOfSet({final_df[i].Date : i \in 1..Len(final_df)})

LastDate == MaxOfSet({final_df[i].Date : i \in 1..Len(final_df)})

CalendarDays == IF Len(final_df) = 0 THEN 0 ELSE LastDate - FirstDate + 1

DailyPnL(j) == PnLOf({i \in 1..Len(final_df) : final_df[i].Date = FirstDate + j - 1})

\* the trailing window of day j, oldest day first
WindowPnL(j) == [m \in 1..args.window_days |-> DailyPnL(j - args.window_days + m)]

WindowSum(j) == SumInts(WindowPnL(j))

WindowNegativeSquares(j) ==
    SumInts([m \in 1..args.window_days |->
                IF WindowPnL(j)[m] < 0 THEN WindowPnL(j)[m] * WindowPnL(j)[m] ELSE 0])

\* v * v = a / b and v has the sign of s
IsSignedRootOf(v, s, a, b) ==
    /\ v.k \in {"rat", "sqrt"}
    /\ Sign(v.n) = Sign(s)
    /\ IF v.k = "rat" THEN v.n * v.n * b = a * v.d * v.d ELSE Abs(v.n) * b = a * v.d

\* C22: the result has one value per calendar day of the daily series; it is
\* null on the first window_days - 1 days and on every day whose trailing
\* window holds no negative daily P&L; on the other days it is
\* (mean of the window) / sqrt(mean over the window of the squared negative
\* values) * sqrt(252), that is v with v * v = sum^2 * 252 / (window_days *
\* sum of squared negatives) and the sign of the sum; rf_rate changes nothing.
C22_RollingSortinoValues ==
    SortinoCalled
        => /\ Len(ret.v) = CalendarDays
           /\ \A j \in 1..Len(ret.v) :
                 IF j < args.window_days \/ WindowNegativeSquares(j) = 0
                 THEN IsNaN(ret.v[j])
                 ELSE IsSignedRootOf(ret.v[j], WindowSum(j),
                                     WindowSum(j) * WindowSum(j) * 252,
                                     args.window_days * WindowNegativeSquares(j))
           /\ \A rf_rate \in RfRates :
                 calculate_rolling_sortino(final_df, args.window_days, rf_rate) = ret.v

\* three calendar days with a window of two: null on the first day, a number
\* on the second (a loss in the window), null on the third (no loss in it)
C22_Witness ==
    /\ SortinoCalled
    /\ args.window_days = 2
    /\ Len(ret.v) = 3
    /\ IsNaN(ret.v[1])
    /\ IsNumber(ret.v[2])
    /\ IsNaN(ret.v[3])
    /\ DailyPnL(3) > 0

(***************************************************************************)
(* The load loop.  Loaded: the files whose load returned a frame among the *)
(* files the loop has passed, in the order of the selection; FileNamed: the *)
(* available file with a base name.                                        *)
(***************************************************************************)
Loading == op = "load_loop"

Loaded ==
    SelectSeq(SubSeq(args.selected_files, 1, args.i), LAMBDA f : load_data_cached(f).k = "DataFrame")

FileNamed(name) == CHOOSE f \in AvailableFiles : SubSeq(f, 2, Len(f)) = name

\* the records of the file a name stands for, inside the window of the call
WindowOfFile(name) ==
    SelectSeq(load_data_cached(FileNamed(name)).v,
              LAMBDA r : r.Date >= args.start_date /\ r.Date <= args.end_date)

\* C23: after every pass of the load loop the datasets and the used file
\* names have the same length, one entry per file whose load returned a
\* dataset and none for the others, and the i-th name is the base name of
\* the file the i-th dataset was read from; every leaderboard row then has
\* the name (with or without its extension) of a loaded file and the trades
\* and net profit of that file's records in the window.
C23_NamesAndDatasetsPairUp ==
    /\ Len(file_names) = Len(all_dfs)
    /\ \A i \in 1..Len(all_dfs) :
          /\ \E f \in AvailableFiles : SubSeq(f, 2, Len(f)) = file_names[i]
          /\ load_data_cached(FileNamed(file_names[i])).k = "DataFrame"
          /\ store[all_dfs[i]] = load_data_cached(FileNamed(file_names[i])).v
    /\ Loading
          => /\ Len(all_dfs) = Len(Loaded)
             /\ \A i \in 1..Len(Loaded) : FileNamed(file_names[i]) = Loaded[i]
    /\ LeaderboardCalled
          => /\ Len(ret.v) = Len(Ranked)
             /\ \A j \in 1..Len(ret.v) :
                   /\ ret.v[j]["Strategy"] \in {file_names[Ranked[j]], Stem(file_names[Ranked[j]])}
                   /\ ret.v[j]["Trades"] = Num(Len(WindowOfFile(file_names[Ranked[j]])))
                   /\ ret.v[j]["Net Profit"]
                         = Num(SumInts(NetPnL(WindowOfFile(file_names[Ranked[j]])))
                               - Len(WindowOfFile(file_names[Ranked[j]])) * args.slippage)

\* b.xls and a.xlsx were loaded in that order: two datasets, two names, and a
\* leaderboard row for each with the trades of its own file
C23_Witness ==
    /\ LeaderboardCalled
    /\ file_names = <<<<"b", ".xls">>, <<"a", ".xlsx">>>>
    /\ Len(ret.v) = 2
    /\ ret.v[1]["Trades"] = Num(1)
    /\ ret.v[2]["Trades"] = Num(2)

\* the loop has passed a file that returned no dataset and one that did
C23_LoopWitness ==
    /\ Loading
    /\ args.i = 2
    /\ load_data_cached(args.selected_files[1]) = None
    /\ Len(all_dfs) = 1

====
